---- MODULE Spec2Model ----
(***************************************************************************)
(* A model of src/components/ScatterPlotPlayground.jsx: the React          *)
(* component's five state cells, its click and reset handlers, its effect  *)
(* hook, and the two statistics functions.                                 *)
(*                                                                         *)
(* Every JavaScript number of the component is an IEEE-754 binary64 value  *)
(* and is modelled as one: the arithmetic below rounds to nearest, ties to *)
(* even, exactly as the ECMAScript operators +, -, *, / and Math.sqrt do.  *)
(* TLC's integers are 32 bits wide, so 53-bit significands are kept as     *)
(* little-endian sequences of digits in base 2^15.                         *)
(***************************************************************************)
EXTENDS Integers, Sequences, FiniteSets, TLC

----------------------------------------------------------------------------
(* Natural numbers of any size: <<d1, d2, ...>> is d1 + d2*Base + ...,     *)
(* with no leading (last) zero digit; <<>> is 0.                           *)

\* The powers of 2 below the base, one for each binary place of a digit.
Pow2Table == <<1, 2, 4, 8, 16, 32, 64, 128, 256, 512, 1024, 2048, 4096, 8192, 16384>>

DigitBits == Len(Pow2Table)

Base == 2^DigitBits

Pow2(k) == Pow2Table[k + 1]

RECURSIVE NatNorm(_)
NatNorm(a) ==
  IF a = <<>> THEN a
  ELSE IF a[Len(a)] = 0 THEN NatNorm(SubSeq(a, 1, Len(a) - 1))
  ELSE a

RECURSIVE NatOfInt(_)
NatOfInt(i) == IF i = 0 THEN <<>> ELSE <<i % Base>> \o NatOfInt(i \div Base)

RECURSIVE AddC(_, _, _)
AddC(a, b, c) ==
  IF a = <<>> /\ b = <<>> THEN (IF c = 0 THEN <<>> ELSE <<c>>)
  ELSE IF b = <<>> /\ c = 0 THEN a
  ELSE IF a = <<>> /\ c = 0 THEN b
  ELSE LET x == (IF a = <<>> THEN 0 ELSE a[1]) + (IF b = <<>> THEN 0 ELSE b[1]) + c
       IN  <<x % Base>> \o AddC(IF a = <<>> THEN a ELSE Tail(a),
                                 IF b = <<>> THEN b ELSE Tail(b),
                                 x \div Base)

NatAdd(a, b) == AddC(a, b, 0)

\* a - b - c for a >= b + c, digit by digit with a borrow; not normalised.
RECURSIVE SubB(_, _, _)
SubB(a, b, c) ==
  IF a = <<>> THEN <<>>
  ELSE IF b = <<>> /\ c = 0 THEN a
  ELSE LET x == a[1] - (IF b = <<>> THEN 0 ELSE b[1]) - c
       IN  <<(x + Base) % Base>> \o SubB(Tail(a),
                                         IF b = <<>> THEN b ELSE Tail(b),
                                         IF x < 0 THEN 1 ELSE 0)

NatSub(a, b) == NatNorm(SubB(a, b, 0))

\* -1, 0 or 1 as a < b, a = b or a > b.
RECURSIVE CmpFrom(_, _, _)
CmpFrom(a, b, i) ==
  IF i = 0 THEN 0
  ELSE IF a[i] < b[i] THEN -1
  ELSE IF a[i] > b[i] THEN 1
  ELSE CmpFrom(a, b, i - 1)

NatCmp(a, b) ==
  IF Len(a) < Len(b) THEN -1
  ELSE IF Len(a) > Len(b) THEN 1
  ELSE CmpFrom(a, b, Len(a))

\* a * d + c for one digit d and a carry c.
RECURSIVE MulSmall(_, _, _)
MulSmall(a, d, c) ==
  IF a = <<>> THEN (IF c = 0 THEN <<>> ELSE <<c>>)
  ELSE LET x == a[1] * d + c
       IN  <<x % Base>> \o MulSmall(Tail(a), d, x \div Base)

RECURSIVE NatMul(_, _)
NatMul(a, b) ==
  IF a = <<>> \/ b = <<>> THEN <<>>
  ELSE NatAdd(MulSmall(b, a[1], 0),
              LET r == NatMul(Tail(a), b) IN IF r = <<>> THEN r ELSE <<0>> \o r)

Zeros(k) == [i \in 1..k |-> 0]

\* a * 2^k
NatShl(a, k) ==
  IF a = <<>> THEN a
  ELSE Zeros(k \div DigitBits) \o
       (IF k % DigitBits = 0 THEN a ELSE NatNorm(MulSmall(a, Pow2(k % DigitBits), 0)))

\* floor(a / d) for one digit d, from the top digit down; r is the remainder so far.
RECURSIVE DivSmallFrom(_, _, _, _)
DivSmallFrom(a, d, i, r) ==
  IF i = 0 THEN <<>>
  ELSE LET x == r * Base + a[i]
       IN  DivSmallFrom(a, d, i - 1, x % d) \o <<x \div d>>

\* floor(a / 2^k)
NatShr(a, k) ==
  LET drop == k \div DigitBits
      rest == IF drop >= Len(a) THEN <<>> ELSE SubSeq(a, drop + 1, Len(a))
  IN  IF k % DigitBits = 0 THEN rest
      ELSE NatNorm(DivSmallFrom(rest, Pow2(k % DigitBits), Len(rest), 0))

RECURSIVE SmallBitLen(_)
SmallBitLen(d) == IF d = 0 THEN 0 ELSE 1 + SmallBitLen(d \div 2)

\* The number of binary digits of a (0 for 0).
BitLen(a) == IF a = <<>> THEN 0 ELSE DigitBits * (Len(a) - 1) + SmallBitLen(a[Len(a)])

NatBit(a, i) ==
  IF i \div DigitBits >= Len(a) THEN 0
  ELSE (a[i \div DigitBits + 1] \div Pow2(i % DigitBits)) % 2

NatPow2(k) == Zeros(k \div DigitBits) \o <<Pow2(k % DigitBits)>>

\* One step of binary long division by b > 0: qr = <<q, r>> is the quotient and the
\* remainder of the digits of a above digit i, and digit i is taken in.
DivStep(a, b, i, qr) ==
  LET r2 == AddC(qr[2], qr[2], NatBit(a, i))
  IN  IF NatCmp(r2, b) >= 0
      THEN <<AddC(qr[1], qr[1], 1), NatSub(r2, b)>>
      ELSE <<AddC(qr[1], qr[1], 0), r2>>

\* The steps for digits hi down to lo, the upper half of them first.  When that half
\* leaves no remainder and the lower digits of a are all 0, so are the quotient's.
RECURSIVE DivRange(_, _, _, _, _)
DivRange(a, b, hi, lo, qr) ==
  IF hi < lo THEN qr
  ELSE IF hi = lo THEN DivStep(a, b, hi, qr)
  ELSE LET mid == (hi + lo + 1) \div 2
           top == DivRange(a, b, hi, mid, qr)
       IN  IF top[2] = <<>> /\ NatShr(a, lo) = NatShl(NatShr(a, mid), mid - lo)
           THEN <<NatShl(top[1], mid - lo), <<>>>>
           ELSE DivRange(a, b, mid - 1, lo, top)

\* <<floor(a / b), a mod b>> for b > 0.  The leading digits of a, one fewer than b
\* has, are less than b: they are the first remainder, and the steps take the rest.
NatDivMod(a, b) ==
  LET rest == BitLen(a) - BitLen(b) + 1
  IN  IF rest <= 0 THEN <<<<>>, a>>
      ELSE DivRange(a, b, rest - 1, 0, <<<<>>, NatShr(a, rest)>>)

\* One step of the binary square root of a.  st = <<s, r>>: s * 2^i is the root's
\* digits found so far times 2^(i+1), r is what is left of a, and digit i of the root
\* is set when s + 4^i still fits in r.
SqrtStep(i, st) ==
  LET t == NatAdd(st[1], NatPow2(2 * i))
  IN  IF NatCmp(st[2], t) >= 0
      THEN <<NatAdd(NatShr(st[1], 1), NatPow2(2 * i)), NatSub(st[2], t)>>
      ELSE <<NatShr(st[1], 1), st[2]>>

\* The steps for digits hi down to lo, the upper half of them first.  When that half
\* leaves nothing of a, no lower digit is set.
RECURSIVE SqrtRange(_, _, _)
SqrtRange(hi, lo, st) ==
  IF hi < lo THEN st
  ELSE IF hi = lo THEN SqrtStep(hi, st)
  ELSE LET mid == (hi + lo + 1) \div 2
           top == SqrtRange(hi, mid, st)
       IN  IF top[2] = <<>> THEN <<NatShr(top[1], mid - lo), <<>>>>
           ELSE SqrtRange(mid - 1, lo, top)

\* <<floor(sqrt(a)), a - floor(sqrt(a))^2>>
NatSqrtRem(a) == SqrtRange((BitLen(a) - 1) \div 2, 0, <<<<>>, a>>)

----------------------------------------------------------------------------
(* IEEE-754 binary64.  A finite value is (-1)^s * m * 2^e with m < 2^53;   *)
(* a normal value has m >= 2^52, a subnormal one has e = -1074, and zero   *)
(* is m = <<>>, e = 0 with either sign.  k tells finite values ("fin")     *)
(* from the infinities ("inf") and from NaN ("nan").                       *)

NaN == [k |-> "nan", s |-> 0, m |-> <<>>, e |-> 0]

Inf(s) == [k |-> "inf", s |-> s, m |-> <<>>, e |-> 0]

Zero(s) == [k |-> "fin", s |-> s, m |-> <<>>, e |-> 0]

IsNaN(a) == a.k = "nan"

IsZero(a) == a.k = "fin" /\ a.m = <<>>

Max(i, j) == IF i >= j THEN i ELSE j

Min(i, j) == IF i <= j THEN i ELSE j

\* floor(M / 2^sh); for sh <= 0 that is M * 2^(-sh), and nothing is cut off.
Digits(M, sh) == IF sh <= 0 THEN NatShl(M, -sh) ELSE NatShr(M, sh)

\* -1, 0 or 1 as what Digits(M, sh) = t cut off is less than, equal to or more than
\* half a unit of t, for sh > 0.
HalfCmp(M, sh, t) == NatCmp(NatSub(M, NatShl(t, sh)), NatPow2(sh - 1))

\* Round to nearest, ties to even: up when more than half was cut off, or when
\* exactly half was and t is odd.
RoundsUp(t, c) == c > 0 \/ (c = 0 /\ NatBit(t, 0) = 1)

Nearest(M, sh, t) ==
  IF sh > 0 /\ RoundsUp(t, HalfCmp(M, sh, t)) THEN AddC(t, <<>>, 1) ELSE t

\* The value (-1)^s * m * 2^e for m < 2^53: zero, finite, or too large to be finite.
Finite(s, m, e) ==
  IF m = <<>> THEN Zero(s)
  ELSE IF e + BitLen(m) > 1024 THEN Inf(s)
  ELSE [k |-> "fin", s |-> s, m |-> m, e |-> e]

\* Rounding up may have carried into a 54th digit.
Pack(s, m1, q) ==
  IF BitLen(m1) > 53 THEN Finite(s, NatShr(m1, 1), q + 1) ELSE Finite(s, m1, q)

\* Round with the exponent q of the result's last digit given.
RoundAt(s, M, E, q) == Pack(s, Nearest(M, q - E, Digits(M, q - E)), q)

\* The binary64 value nearest to (-1)^s * M * 2^E for M > 0, ties to even.
Round(s, M, E) == RoundAt(s, M, E, Max(BitLen(M) + E - 53, -1074))

\* Twice the whole part of a root or a quotient, plus 1 when something was left
\* over: enough to round it as if it were exact.
Sticky(qr) == AddC(qr[1], qr[1], IF qr[2] = <<>> THEN 0 ELSE 1)

RoundQuotAt(s, N, D, E, sh) == Round(s, Sticky(NatDivMod(NatShl(N, sh), D)), E - sh - 1)

\* The binary64 value nearest to (-1)^s * (N / D) * 2^E for N, D > 0: 56 or more
\* quotient digits, and one more that is 1 when the division left a remainder.
RoundQuot(s, N, D, E) == RoundQuotAt(s, N, D, E, Max(0, BitLen(D) + 56 - BitLen(N)))

FNeg(a) == [a EXCEPT !.s = IF IsNaN(a) THEN 0 ELSE 1 - a.s]

FAbs(a) == [a EXCEPT !.s = 0]

\* The exact sum of finite nonzero a and b when b lies more than 64 binary places
\* below a, but for its size: b only tells on which side of a the sum lies.
Beside(a, b) ==
  [s |-> a.s,
   M |-> IF a.s = b.s THEN AddC(NatShl(a.m, 3), <<>>, 1) ELSE NatSub(NatShl(a.m, 3), <<1>>),
   E |-> a.e - 3]

\* The exact sum of (-1)^a.s * A * 2^e and (-1)^b.s * B * 2^e.
AddMag(a, b, A, B, e) ==
  IF a.s = b.s THEN [s |-> a.s, M |-> NatAdd(A, B), E |-> e]
  ELSE IF NatCmp(A, B) >= 0 THEN [s |-> a.s, M |-> NatSub(A, B), E |-> e]
  ELSE [s |-> b.s, M |-> NatSub(B, A), E |-> e]

Aligned(a, b, e) == AddMag(a, b, NatShl(a.m, a.e - e), NatShl(b.m, b.e - e), e)

ExactSum(a, b) ==
  IF a.e - b.e > 64 THEN Beside(a, b)
  ELSE IF b.e - a.e > 64 THEN Beside(b, a)
  ELSE Aligned(a, b, Min(a.e, b.e))

\* An exact sum of zero is +0.
RoundSum(r) == IF r.M = <<>> THEN Zero(0) ELSE Round(r.s, r.M, r.E)

\* a + b
FAdd(a, b) ==
  IF IsNaN(a) \/ IsNaN(b) THEN NaN
  ELSE IF a.k = "inf" THEN (IF b.k = "inf" /\ b.s # a.s THEN NaN ELSE a)
  ELSE IF b.k = "inf" THEN b
  ELSE IF IsZero(a) /\ IsZero(b) THEN Zero(IF a.s = 1 /\ b.s = 1 THEN 1 ELSE 0)
  ELSE IF IsZero(a) THEN b
  ELSE IF IsZero(b) THEN a
  ELSE RoundSum(ExactSum(a, b))

\* a - b
FSub(a, b) == FAdd(a, FNeg(b))

\* a * b
FMul(a, b) ==
  LET s == (a.s + b.s) % 2
  IN  IF IsNaN(a) \/ IsNaN(b) THEN NaN
      ELSE IF a.k = "inf" \/ b.k = "inf"
           THEN (IF IsZero(a) \/ IsZero(b) THEN NaN ELSE Inf(s))
      ELSE IF IsZero(a) \/ IsZero(b) THEN Zero(s)
      ELSE Round(s, NatMul(a.m, b.m), a.e + b.e)

\* a / b
FDiv(a, b) ==
  LET s == (a.s + b.s) % 2
  IN  IF IsNaN(a) \/ IsNaN(b) THEN NaN
      ELSE IF a.k = "inf" THEN (IF b.k = "inf" THEN NaN ELSE Inf(s))
      ELSE IF b.k = "inf" THEN Zero(s)
      ELSE IF IsZero(b) THEN (IF IsZero(a) THEN NaN ELSE Inf(s))
      ELSE IF IsZero(a) THEN Zero(s)
      ELSE RoundQuot(s, a.m, b.m, a.e - b.e)

\* The root of a.m * 2^a.e from the whole root of a.m * 2^sh, for sh of the parity
\* of a.e and large enough to give 55 or more digits.
SqrtAt(a, sh) == Round(0, Sticky(NatSqrtRem(NatShl(a.m, sh))), (a.e - sh) \div 2 - 1)

SqrtShift(a, k0) == k0 + ((a.e - k0) % 2)

\* Math.sqrt(a)
FSqrt(a) ==
  IF IsNaN(a) THEN NaN
  ELSE IF IsZero(a) THEN a
  ELSE IF a.s = 1 THEN NaN
  ELSE IF a.k = "inf" THEN a
  ELSE SqrtAt(a, SqrtShift(a, Max(0, 110 - BitLen(a.m))))

\* -1, 0 or 1 as |a| < |b|, |a| = |b| or |a| > |b|, for finite a and b.
CmpMag(a, b) ==
  IF IsZero(a) THEN (IF IsZero(b) THEN 0 ELSE -1)
  ELSE IF IsZero(b) THEN 1
  ELSE IF a.e < b.e THEN -1
  ELSE IF a.e > b.e THEN 1
  ELSE NatCmp(a.m, b.m)

\* -1, 0 or 1 as a < b, a = b or a > b, for a and b that are not NaN.
FCmp(a, b) ==
  IF IsZero(a) /\ IsZero(b) THEN 0
  ELSE IF a.s # b.s THEN (IF a.s = 1 THEN -1 ELSE 1)
  ELSE IF a.k = "inf" \/ b.k = "inf"
       THEN (IF a.k = b.k THEN 0
             ELSE IF (a.k = "inf") = (a.s = 0) THEN 1 ELSE -1)
  ELSE IF a.s = 0 THEN CmpMag(a, b) ELSE CmpMag(b, a)

\* a < b, a > b and a === b: every comparison with NaN is false.
FLt(a, b) == ~IsNaN(a) /\ ~IsNaN(b) /\ FCmp(a, b) < 0

FGt(a, b) == FLt(b, a)

FEq(a, b) == ~IsNaN(a) /\ ~IsNaN(b) /\ FCmp(a, b) = 0

\* The Number value of an integer.
FromInt(i) == IF i = 0 THEN Zero(0) ELSE Round(IF i < 0 THEN 1 ELSE 0, NatOfInt(IF i < 0 THEN -i ELSE i), 0)

RECURSIVE NatPow10(_)
NatPow10(d) == IF d = 0 THEN <<1>> ELSE MulSmall(NatPow10(d - 1), 10, 0)

\* The Number value of the decimal literal (-1)^s * N / 10^d (Number("1.23"), 0.0001).
FromDecimal(s, N, d) == IF N = <<>> THEN Zero(s) ELSE RoundQuot(s, N, NatPow10(d), 0)

\* x.toFixed(d): the sign and the integer n for which n / 10^d is nearest to |x|,
\* the larger n on a tie.  A value of 10^21 or more is printed by ToString, which
\* tells any two Number values apart, and so is kept as the value itself.
ToFixed(x, d) ==
  IF IsNaN(x) THEN [k |-> "NaN"]
  ELSE IF x.k = "inf" THEN [k |-> "ToString", v |-> x]
  ELSE IF IsZero(x) THEN [k |-> "fixed", neg |-> FALSE, n |-> <<>>]
  ELSE IF BitLen(x.m) + x.e > 70
          \/ (BitLen(x.m) + x.e = 70 /\ NatCmp(NatShl(x.m, x.e), NatPow10(21)) >= 0)
       THEN [k |-> "ToString", v |-> x]
  ELSE LET A == NatMul(x.m, NatPow10(d))
       IN  [k |-> "fixed", neg |-> x.s = 1,
            n |-> IF x.e >= 0 THEN NatShl(A, x.e)
                  ELSE NatShr(NatAdd(A, NatPow2(-x.e - 1)), -x.e)]

\* Number(str) for a string that toFixed made.
NumberOf(str) ==
  IF str.k = "NaN" THEN NaN
  ELSE IF str.k = "ToString" THEN str.v
  ELSE FromDecimal(IF str.neg THEN 1 ELSE 0, str.n, 2)

----------------------------------------------------------------------------
(* The statistics functions.  A point is [x |-> Number, y |-> Number];     *)
(* null is Null; the strings of a steps object are kept as ToFixed made    *)
(* them.                                                                   *)

Null == [k |-> "null"]

\* points.reduce((acc, p) => acc + term(p), 0) over the terms of the first i points.
RECURSIVE SumTo(_, _)
SumTo(terms, i) == IF i = 0 THEN Zero(0) ELSE FAdd(SumTo(terms, i - 1), terms[i])

SumX(pts) == SumTo([i \in 1..Len(pts) |-> pts[i].x], Len(pts))

SumY(pts) == SumTo([i \in 1..Len(pts) |-> pts[i].y], Len(pts))

SumXY(pts) == SumTo([i \in 1..Len(pts) |-> FMul(pts[i].x, pts[i].y)], Len(pts))

SumXSquare(pts) == SumTo([i \in 1..Len(pts) |-> FMul(pts[i].x, pts[i].x)], Len(pts))

SumYSquare(pts) == SumTo([i \in 1..Len(pts) |-> FMul(pts[i].y, pts[i].y)], Len(pts))

\* The literal 0.0001 of the two guards.
Epsilon == FromDecimal(0, <<1>>, 4)

\* points.some((p) => Math.abs(p.y - yMean) > 0.0001)
HasYVariation(pts, yMean) ==
  \E i \in 1..Len(pts) : FGt(FAbs(FSub(pts[i].y, yMean)), Epsilon)

\* The denominator guard: Math.abs(denominator) < 0.0001
DenominatorGuard(denominator) == FLt(FAbs(denominator), Epsilon)

\* The length test with 2 for 3.
TooFewOffByOne(pts) == Len(pts) < 2

\* points.length < 3, the first test of both functions.
TooFew(pts) == Len(pts) < 3

\* The steps object of calculateCorrelation.
CorrelationSteps(pts, sumX, sumY, sumXY, sumXSquare, sumYSquare, numerator, denominator) ==
  [n |-> Len(pts),
   sumX |-> ToFixed(sumX, 2),
   sumY |-> ToFixed(sumY, 2),
   sumXY |-> ToFixed(sumXY, 2),
   sumXSquare |-> ToFixed(sumXSquare, 2),
   sumYSquare |-> ToFixed(sumYSquare, 2),
   numerator |-> ToFixed(numerator, 2),
   denominator |-> ToFixed(denominator, 2)]

\* calculateCorrelation from the denominator guard on.
CorrelationQuotient(pts, n, sumX, sumY, sumXY, sumXSquare, sumYSquare, numerator, product, denominator) ==
  IF DenominatorGuard(denominator)
  THEN [correlation |-> Zero(0), steps |-> Null, path |-> "smallDenominator",
        numerator |-> numerator, product |-> product, divisors |-> <<n>>]
  ELSE [correlation |-> IF FEq(denominator, Zero(0)) THEN Zero(0)
                        ELSE FDiv(numerator, denominator),
        steps |-> CorrelationSteps(pts, sumX, sumY, sumXY, sumXSquare, sumYSquare,
                                   numerator, denominator),
        path |-> "divide",
        numerator |-> numerator,
        product |-> product,
        divisors |-> IF FEq(denominator, Zero(0)) THEN <<n>> ELSE <<n, denominator>>]

\* calculateCorrelation from the square root on.
CorrelationRoot(pts, n, sumX, sumY, sumXY, sumXSquare, sumYSquare, numerator, product) ==
  CorrelationQuotient(pts, n, sumX, sumY, sumXY, sumXSquare, sumYSquare,
                      numerator, product, FSqrt(product))

\* calculateCorrelation from yMean on, with n and the five sums computed.
CorrelationSums(pts, n, sumX, sumY, sumXY, sumXSquare, sumYSquare) ==
  IF ~HasYVariation(pts, FDiv(sumY, n))
  THEN [correlation |-> Zero(0), steps |-> Null, path |-> "flatY",
        numerator |-> Null, product |-> Null, divisors |-> <<n>>]
  ELSE CorrelationRoot(pts, n, sumX, sumY, sumXY, sumXSquare, sumYSquare,
                       FSub(FMul(n, sumXY), FMul(sumX, sumY)),
                       FMul(FSub(FMul(n, sumXSquare), FMul(sumX, sumX)),
                            FSub(FMul(n, sumYSquare), FMul(sumY, sumY))))

\* calculateCorrelation(points): [correlation, steps], and beside them (they are no
\* part of the result) the return statement taken, the numerator and the product
\* under the square root where they were computed, and the divisors of the
\* divisions made.
CorrelationRun(pts) ==
  IF TooFew(pts)
  THEN [correlation |-> Null, steps |-> Null, path |-> "few",
        numerator |-> Null, product |-> Null, divisors |-> <<>>]
  ELSE CorrelationSums(pts, FromInt(Len(pts)), SumX(pts), SumY(pts), SumXY(pts),
                       SumXSquare(pts), SumYSquare(pts))

calculateCorrelation(pts) ==
  LET r == CorrelationRun(pts) IN [correlation |-> r.correlation, steps |-> r.steps]

\* The zero test of calculateRegression: denominator === 0
SlopeUndefined(denominator) == FEq(denominator, Zero(0))

\* The steps object of calculateRegression.
RegressionSteps(pts, sumX, sumY, sumXY, sumXSquare, slope, intercept, slopeNumerator, denominator) ==
  [n |-> Len(pts),
   sumX |-> ToFixed(sumX, 2),
   sumY |-> ToFixed(sumY, 2),
   sumXY |-> ToFixed(sumXY, 2),
   sumXSquare |-> ToFixed(sumXSquare, 2),
   slope |-> ToFixed(slope, 3),
   intercept |-> ToFixed(intercept, 3),
   slopeNumerator |-> ToFixed(slopeNumerator, 2),
   slopeDenominator |-> ToFixed(denominator, 2)]

\* The return value of calculateRegression when it divides.
RegressionResult(pts, n, sumX, sumY, sumXY, sumXSquare, slopeNumerator, denominator, slope, intercept) ==
  [line |-> [slope |-> slope, intercept |-> intercept],
   steps |-> RegressionSteps(pts, sumX, sumY, sumXY, sumXSquare, slope, intercept,
                             slopeNumerator, denominator),
   divisors |-> <<denominator, n>>]

\* The intercept without the division by n.
RegressionLineUndivided(pts, n, sumX, sumY, sumXY, sumXSquare, slopeNumerator, denominator, slope) ==
  RegressionResult(pts, n, sumX, sumY, sumXY, sumXSquare, slopeNumerator, denominator,
                   slope, FSub(sumY, FMul(slope, sumX)))

\* calculateRegression from the intercept on.
RegressionLine(pts, n, sumX, sumY, sumXY, sumXSquare, slopeNumerator, denominator, slope) ==
  RegressionResult(pts, n, sumX, sumY, sumXY, sumXSquare, slopeNumerator, denominator,
                   slope, FDiv(FSub(sumY, FMul(slope, sumX)), n))

\* calculateRegression from the zero test on.
RegressionSlope(pts, n, sumX, sumY, sumXY, sumXSquare, slopeNumerator, denominator) ==
  IF SlopeUndefined(denominator)
  THEN [line |-> Null, steps |-> Null, divisors |-> <<>>]
  ELSE RegressionLine(pts, n, sumX, sumY, sumXY, sumXSquare, slopeNumerator, denominator,
                      FDiv(slopeNumerator, denominator))

\* The slope's numerator with sumX * sumX for sumX * sumY.
RegressionSumsWrongProduct(pts, n, sumX, sumY, sumXY, sumXSquare) ==
  RegressionSlope(pts, n, sumX, sumY, sumXY, sumXSquare,
                  FSub(FMul(n, sumXY), FMul(sumX, sumX)),
                  FSub(FMul(n, sumXSquare), FMul(sumX, sumX)))

\* calculateRegression from its denominator on, with n and the four sums computed.
RegressionSums(pts, n, sumX, sumY, sumXY, sumXSquare) ==
  RegressionSlope(pts, n, sumX, sumY, sumXY, sumXSquare,
                  FSub(FMul(n, sumXY), FMul(sumX, sumY)),
                  FSub(FMul(n, sumXSquare), FMul(sumX, sumX)))

\* calculateRegression(points): [line, steps], with the divisors of the divisions
\* made kept beside them.
RegressionRun(pts) ==
  IF TooFew(pts)
  THEN [line |-> Null, steps |-> Null, divisors |-> <<>>]
  ELSE RegressionSums(pts, FromInt(Len(pts)), SumX(pts), SumY(pts), SumXY(pts),
                      SumXSquare(pts))

calculateRegression(pts) ==
  LET r == RegressionRun(pts) IN [line |-> r.line, steps |-> r.steps]

----------------------------------------------------------------------------
(* The component.  points and the four results are its state cells.        *)
(* effectPending says that points was set since the effect last ran: React *)
(* runs the effect of a render after that render is committed, and before  *)
(* it handles the next click.  lastEvent and outsideClick record what was  *)
(* done, for the properties; the component does not read them.             *)

VARIABLES points, correlation, regressionLine, calculationSteps, regressionSteps,
          effectPending, lastEvent, outsideClick,
          sample, corrOut, regOut

vars == <<points, correlation, regressionLine, calculationSteps, regressionSteps,
          effectPending, lastEvent, outsideClick, sample, corrOut, regOut>>

results == <<correlation, calculationSteps, regressionLine, regressionSteps>>

\* The most points the model lets the plot hold.
MaxPoints == 3

\* The side of the plot container in pixels (w-[600px] h-[600px]): rect.width and
\* rect.height.
PlotSize == 600

\* The clicks tried: <<e.clientX - rect.left, e.clientY - rect.top>> in pixels.  The
\* axis labels at the rim reach past the container, and a click on one of them is
\* handled with a position that is not inside it.
ClickPositions == {<<0, 0>>, <<600, 600>>, <<301, 152>>, <<450, 603>>, <<-3, 300>>}

ClickOffsets == {c[1] : c \in ClickPositions} \cup {c[2] : c \in ClickPositions}

\* relativeX and relativeY: the offset over the size.
Relative(offset) == FDiv(FromInt(offset), FromInt(PlotSize))

\* x without the rounding to two decimals.
MapXUnrounded(offset) == FSub(FMul(Relative(offset), FromInt(20)), FromInt(10))

\* x = Number((relativeX * 20 - 10).toFixed(2))
MapX(offset) ==
  NumberOf(ToFixed(FSub(FMul(Relative(offset), FromInt(20)), FromInt(10)), 2))

\* y = Number((-relativeY * 20 + 10).toFixed(2))
MapY(offset) ==
  NumberOf(ToFixed(FAdd(FMul(FNeg(Relative(offset)), FromInt(20)), FromInt(10)), 2))

\* The two maps on the offsets tried, worked out once.
ClickX == [o \in ClickOffsets |-> MapX(o)]

ClickY == [o \in ClickOffsets |-> MapY(o)]

\* The click position lies inside the container: relativeX and relativeY in [0, 1].
InsideOffset(offset) ==
  /\ ~FLt(Relative(offset), Zero(0))
  /\ ~FGt(Relative(offset), FromInt(1))

ClickInside == [c \in ClickPositions |-> InsideOffset(c[1]) /\ InsideOffset(c[2])]

\* The test with p.y compared with x.
PointExistsWrongAxis(pts, x, y) ==
  \E i \in 1..Len(pts) : FEq(pts[i].x, x) /\ FEq(pts[i].y, x)

\* points.some((p) => p.x === x && p.y === y)
PointExists(pts, x, y) == \E i \in 1..Len(pts) : FEq(pts[i].x, x) /\ FEq(pts[i].y, y)

\* The new point put first: [{ x, y }, ...points]
WithPointFirst(pts, x, y) == <<[x |-> x, y |-> y]>> \o pts

\* [...points, { x, y }]
WithPoint(pts, x, y) == Append(pts, [x |-> x, y |-> y])

ComponentInit ==
  /\ points = <<>>
  /\ correlation = Null
  /\ regressionLine = Null
  /\ calculationSteps = Null
  /\ regressionSteps = Null
  /\ effectPending = TRUE
  /\ lastEvent = [type |-> "mount"]
  /\ outsideClick = FALSE

\* handlePlotClick(e) for a click at position c; onPoint is
\* e.target.classList.contains("point"), which needs a point to be drawn.
HandlePlotClick(c, onPoint) ==
  /\ ~effectPending
  /\ onPoint => points # <<>>
  /\ outsideClick' = (outsideClick \/ ~ClickInside[c])
  /\ IF onPoint
     THEN /\ lastEvent' = [type |-> "click", onPoint |-> TRUE]
          /\ UNCHANGED <<points, effectPending>>
     ELSE /\ lastEvent' = [type |-> "click", onPoint |-> FALSE,
                           x |-> ClickX[c[1]], y |-> ClickY[c[2]]]
          /\ IF PointExists(points, ClickX[c[1]], ClickY[c[2]])
             THEN UNCHANGED <<points, effectPending>>
             ELSE /\ Len(points) < MaxPoints
                  /\ points' = WithPoint(points, ClickX[c[1]], ClickY[c[2]])
                  /\ effectPending' = TRUE
  /\ UNCHANGED <<results, sample, corrOut, regOut>>

\* The reset that empties the array in place and sets it again: points is the same
\* array, so no effect runs.
ResetPointsInPlace ==
  /\ ~effectPending
  /\ points' = <<>>
  /\ lastEvent' = [type |-> "reset"]
  /\ outsideClick' = FALSE
  /\ UNCHANGED <<effectPending, results, sample, corrOut, regOut>>

\* The Reset Points button: setPoints([]).  The new array is never the old one, so
\* the effect runs again even when points was empty.
ResetPoints ==
  /\ ~effectPending
  /\ points' = <<>>
  /\ effectPending' = TRUE
  /\ lastEvent' = [type |-> "reset"]
  /\ outsideClick' = FALSE
  /\ UNCHANGED <<results, sample, corrOut, regOut>>

\* The effect with the regression results left as they were.
UpdateEffectCorrelationOnly ==
  /\ effectPending
  /\ LET c == calculateCorrelation(points)
     IN  /\ correlation' = c.correlation
         /\ calculationSteps' = c.steps
  /\ effectPending' = FALSE
  /\ lastEvent' = [type |-> "effect"]
  /\ UNCHANGED <<points, regressionLine, regressionSteps, outsideClick, sample, corrOut, regOut>>

\* The effect on [points]: both functions are run on points and the four results set.
UpdateEffect ==
  /\ effectPending
  /\ LET c == calculateCorrelation(points)
         r == calculateRegression(points)
     IN  /\ correlation' = c.correlation
         /\ calculationSteps' = c.steps
         /\ regressionLine' = r.line
         /\ regressionSteps' = r.steps
  /\ effectPending' = FALSE
  /\ lastEvent' = [type |-> "effect"]
  /\ UNCHANGED <<points, outsideClick, sample, corrOut, regOut>>

Next ==
  \/ \E c \in ClickPositions, onPoint \in BOOLEAN : HandlePlotClick(c, onPoint)
  \/ ResetPoints
  \/ UpdateEffect

NotRun == [k |-> "notRun"]

Init ==
  /\ ComponentInit
  /\ sample = <<>>
  /\ corrOut = NotRun
  /\ regOut = NotRun

Spec == Init /\ [][Next]_vars

----------------------------------------------------------------------------
(* The two functions on their own: sample is a sequence of points written  *)
(* in hundredths, <<100 x, 100 y>>, and the functions are applied to the   *)
(* Number values of those decimals.                                        *)

\* The longest sample.
MaxSample == 3

\* Seven points: a column of three, a row of three and both diagonals of three.
SamplePoints ==
  {<<-998, 100>>, <<-997, 400>>, <<-996, 700>>, <<-998, 700>>, <<-996, 100>>,
   <<-998, 400>>, <<-997, 700>>}

Samples == UNION {[1..n -> SamplePoints] : n \in 0..MaxSample}

\* The Number value of the decimal with h hundredths, as Number("-9.98") gives it.
FromHundredths(h) == FromDecimal(IF h < 0 THEN 1 ELSE 0, NatOfInt(IF h < 0 THEN -h ELSE h), 2)

SampleValue == [h \in SamplePoints |-> [x |-> FromHundredths(h[1]), y |-> FromHundredths(h[2])]]

Arg(smp) == [i \in 1..Len(smp) |-> SampleValue[smp[i]]]

CalcInit ==
  /\ ComponentInit
  /\ sample \in Samples
  /\ corrOut = NotRun
  /\ regOut = NotRun

ApplyCorrelation ==
  /\ corrOut = NotRun
  /\ corrOut' = CorrelationRun(Arg(sample))
  /\ UNCHANGED <<points, results, effectPending, lastEvent, outsideClick, sample, regOut>>

ApplyRegression ==
  /\ corrOut # NotRun
  /\ regOut = NotRun
  /\ regOut' = RegressionRun(Arg(sample))
  /\ UNCHANGED <<points, results, effectPending, lastEvent, outsideClick, sample, corrOut>>

CalcNext == ApplyCorrelation \/ ApplyRegression

SpecCalc == CalcInit /\ [][CalcNext]_vars

----------------------------------------------------------------------------
(* Properties of the component, checked under Spec.                        *)

\* What the effect stores for the point sequence pts.
Computed(pts) ==
  LET c == calculateCorrelation(pts)
      r == calculateRegression(pts)
  IN  <<c.correlation, c.steps, r.line, r.steps>>

\* C1 as stated: in every reachable state the four stored results are those of
\* calculateCorrelation and calculateRegression for the current points, so that no
\* state has points changed and the results still those of the previous points.
ResultsAlwaysCurrent == results = Computed(points)

\* C1 as amended: whenever no run of the effect is pending, the four stored results
\* are those of the two functions for the current points.  (Between a change of
\* points and the run of the effect that follows it they are the previous ones.)
ResultsCurrentOnceEffectRan == ~effectPending => results = Computed(points)

\* The effect has run on three points and stored a correlation and a line.
EffectRanOnThreePoints ==
  /\ ~effectPending
  /\ Len(points) = 3
  /\ correlation # Null
  /\ regressionLine # Null

\* Points i and j of pts have identical coordinates (===).
SamePlace(pts, i, j) == FEq(pts[i].x, pts[j].x) /\ FEq(pts[i].y, pts[j].y)

NoTwoIdentical ==
  \A i, j \in 1..Len(points) : i # j => ~SamePlace(points, i, j)

\* The step is a click, not on a point, at coordinates that a point of the sequence
\* has (Present) or that none has (~Present).
ClickStep(Present) ==
  /\ lastEvent'.type = "click"
  /\ ~lastEvent'.onPoint
  /\ Present = \E i \in 1..Len(points) :
                  FEq(points[i].x, lastEvent'.x) /\ FEq(points[i].y, lastEvent'.y)

\* C3: a click whose mapped coordinates are those of a point already in the sequence
\* leaves the sequence and the four stored results unchanged and starts no
\* recomputation; and no two entries of the sequence ever have identical (x, y).
DuplicateClickIgnored ==
  /\ []NoTwoIdentical
  /\ [][ClickStep(TRUE) => /\ points' = points
                           /\ results' = results
                           /\ effectPending' = effectPending]_vars

\* A click at the coordinates of one of two or more points has just been ignored.
DuplicateClickSeen ==
  /\ lastEvent.type = "click"
  /\ ~lastEvent.onPoint
  /\ ~effectPending
  /\ Len(points) >= 2
  /\ \E i \in 1..Len(points) : FEq(points[i].x, lastEvent.x) /\ FEq(points[i].y, lastEvent.y)

\* C4: an accepted click appends exactly its one point at the end and leaves every
\* earlier point at its index with its coordinates; and no step but a reset changes
\* the sequence in any other way, so between two resets each earlier sequence is a
\* prefix of each later one.
AppendOnly ==
  [][/\ ClickStep(FALSE) => points' = Append(points, [x |-> lastEvent'.x, y |-> lastEvent'.y])
     /\ lastEvent'.type # "reset" =>
          \/ points' = points
          \/ /\ Len(points') = Len(points) + 1
             /\ SubSeq(points', 1, Len(points)) = points]_vars

\* A click has just been accepted as the third point.
ThirdPointAppended ==
  /\ lastEvent.type = "click"
  /\ ~lastEvent.onPoint
  /\ effectPending
  /\ Len(points) = 3
  /\ points[3] = [x |-> lastEvent.x, y |-> lastEvent.y]

\* v is the Number value of a multiple of 0.01 from -10 to 10: the multiple can only
\* be the one nearest to v, h hundredths, and v must be the value of that decimal.
OnGrid(v) ==
  \/ IsZero(v)
  \/ /\ v.k = "fin"
     /\ LET h == ToFixed(v, 2)
        IN  /\ h.k = "fixed"
            /\ NatCmp(h.n, NatOfInt(1000)) <= 0
            /\ v = FromDecimal(v.s, h.n, 2)

\* C5: as long as every click since the last reset was at a position inside the plot
\* container, every point has x and y in [-10, 10], each a multiple of 0.01.
PointsOnGrid ==
  ~outsideClick => \A i \in 1..Len(points) : OnGrid(points[i].x) /\ OnGrid(points[i].y)

\* Three points from clicks inside the container, one of them from the click whose x
\* and y had to be rounded (to 0.03 and 4.93).
RoundedClickStored ==
  /\ ~outsideClick
  /\ Len(points) = 3
  /\ \E i \in 1..3 : points[i] = [x |-> FromHundredths(3), y |-> FromHundredths(493)]

\* None of the four results is stored.
NoResults == results = <<Null, Null, Null, Null>>

\* A result is stored, with no run of the effect pending, only for 3 or more points.
ResultsNeedThreePoints == (~effectPending /\ ~NoResults) => Len(points) >= 3

\* C11: pressing Reset Points, in whatever state, empties the point sequence and
\* triggers the recomputation; the run of the effect that follows a reset leaves all
\* four results null; and from then on none of them becomes non-null before a run of
\* the effect on 3 or more points, so that three accepted clicks are needed first.
ResetClearsResults ==
  /\ []ResultsNeedThreePoints
  /\ [][/\ lastEvent'.type = "reset" => points' = <<>> /\ effectPending'
        /\ (lastEvent.type = "reset" /\ lastEvent'.type = "effect") => NoResults'
        /\ (NoResults /\ ~NoResults') => lastEvent'.type = "effect" /\ Len(points') >= 3]_vars

\* Reset Points has just been pressed with three points plotted and their results
\* stored: the sequence is empty and the recomputation is pending.
ResetPressedWithResults ==
  /\ lastEvent.type = "reset"
  /\ points = <<>>
  /\ effectPending
  /\ correlation # Null
  /\ regressionLine # Null

----------------------------------------------------------------------------
(* Properties of the two functions, checked under SpecCalc.  What a sample *)
(* is (a column, a row, a line) is read off its hundredths, and how far a  *)
(* result is from a fraction is worked out exactly, with no rounding.      *)

SameX(smp) == \A i \in 1..Len(smp) : smp[i][1] = smp[1][1]

SameY(smp) == \A i \in 1..Len(smp) : smp[i][2] = smp[1][2]

AllDistinct(smp) == \A i, j \in 1..Len(smp) : i # j => smp[i] # smp[j]

\* The run and the rise from the first point to the second.
Run(smp) == smp[2][1] - smp[1][1]

Rise(smp) == smp[2][2] - smp[1][2]

\* Every point lies on the line through the first two, y = m * x + b, and m = Rise / Run
\* is neither undefined nor 0.  Then b = (y1 * Run - Rise * x1) / (100 * Run).
OnSlopedLine(smp) ==
  /\ Run(smp) # 0
  /\ Rise(smp) # 0
  /\ \A i \in 1..Len(smp) :
        (smp[i][1] - smp[1][1]) * Rise(smp) = (smp[i][2] - smp[1][2]) * Run(smp)

InterceptTimes(smp) == smp[1][2] * Run(smp) - Rise(smp) * smp[1][1]

SlopeSign(smp) == IF (Rise(smp) > 0) = (Run(smp) > 0) THEN 1 ELSE -1

Abs(i) == IF i < 0 THEN -i ELSE i

\* |v - p / q| <= tn / td for a Number v and integers p, q # 0, tn >= 0 and td > 0:
\* both sides times |q| * td * 2^k, which makes them whole.
Close(v, p, q, tn, td) ==
  /\ v.k = "fin"
  /\ LET k == Max(0, -v.e)
         V == NatMul(NatShl(v.m, v.e + k), NatMul(NatOfInt(Abs(q)), NatOfInt(td)))
         P == NatShl(NatMul(NatOfInt(Abs(p)), NatOfInt(td)), k)
         T == NatShl(NatMul(NatOfInt(tn), NatOfInt(Abs(q))), k)
         D == IF V = <<>> \/ P = <<>> \/ (v.s = 1) = ((p < 0) # (q < 0))
              THEN (IF NatCmp(V, P) >= 0 THEN NatSub(V, P) ELSE NatSub(P, V))
              ELSE NatAdd(V, P)
     IN  NatCmp(D, T) <= 0

\* v is p / q.
Equals(v, p, q) == Close(v, p, q, 0, 1)

\* v is within 0.001 of p / q.
Near(v, p, q) == Close(v, p, q, 1, 1000)

\* a <= b
FLe(a, b) == ~IsNaN(a) /\ ~IsNaN(b) /\ FCmp(a, b) <= 0

\* C2: for every point sequence of length 0, 1 or 2, whatever its coordinates,
\* calculateCorrelation returns correlation = null with steps = null and
\* calculateRegression returns line = null with steps = null.
FewPointsGiveNull ==
  Len(sample) < 3 =>
    /\ corrOut # NotRun => corrOut.correlation = Null /\ corrOut.steps = Null
    /\ regOut # NotRun => regOut.line = Null /\ regOut.steps = Null

\* Both functions have been applied to two different points.
TwoPointsTried ==
  /\ Len(sample) = 2
  /\ sample[1] # sample[2]
  /\ corrOut # NotRun
  /\ regOut # NotRun

\* C6: for every sequence of at least 3 points that all share the same x,
\* calculateRegression returns line = null with steps = null and calculateCorrelation
\* returns correlation = 0 with steps = null, by the denominator guard when the y
\* values are not all equal.
SameXUndefined ==
  (Len(sample) >= 3 /\ SameX(sample)) =>
    /\ corrOut # NotRun =>
         /\ FEq(corrOut.correlation, Zero(0))
         /\ corrOut.steps = Null
         /\ ~SameY(sample) => corrOut.path = "smallDenominator"
    /\ regOut # NotRun => regOut.line = Null /\ regOut.steps = Null

FlatCase(smp) == Len(smp) >= 3 /\ SameY(smp) /\ ~SameX(smp)

\* C7 as stated: for every sequence of at least 3 points that all share the same y
\* value c and do not all share the same x, calculateCorrelation returns
\* correlation = 0 with steps = null and calculateRegression returns a non-null line
\* with slope = 0 and intercept = c.
ConstantYExact ==
  FlatCase(sample) =>
    /\ corrOut # NotRun => FEq(corrOut.correlation, Zero(0)) /\ corrOut.steps = Null
    /\ regOut # NotRun =>
         /\ regOut.line # Null
         /\ Equals(regOut.line.slope, 0, 1)
         /\ Equals(regOut.line.intercept, sample[1][2], 100)

\* C7 as amended: for such a sequence, of coordinates that are multiples of 0.01 in
\* [-10, 10], calculateCorrelation returns correlation = 0 with steps = null and
\* calculateRegression returns a non-null line whose slope is within 0.001 of 0 and
\* whose intercept is within 0.001 of c.
ConstantYNear ==
  FlatCase(sample) =>
    /\ corrOut # NotRun => FEq(corrOut.correlation, Zero(0)) /\ corrOut.steps = Null
    /\ regOut # NotRun =>
         /\ regOut.line # Null
         /\ Near(regOut.line.slope, 0, 1)
         /\ Near(regOut.line.intercept, sample[1][2], 100)

\* Both functions have been applied to three different points of one row, and the
\* slope returned is not 0.
ConstantYSlopeNotZero ==
  /\ FlatCase(sample)
  /\ AllDistinct(sample)
  /\ corrOut # NotRun
  /\ regOut # NotRun
  /\ regOut.line # Null
  /\ ~IsZero(regOut.line.slope)

CollinearCase(smp) == Len(smp) >= 3 /\ AllDistinct(smp) /\ OnSlopedLine(smp)

\* C8 as stated: for every sequence of at least 3 distinct points on one line
\* y = m * x + b with m # 0, calculateCorrelation returns correlation = 1 when m > 0
\* and -1 when m < 0, with non-null steps, and calculateRegression returns slope = m
\* and intercept = b.
CollinearExact ==
  CollinearCase(sample) =>
    /\ corrOut # NotRun =>
         /\ corrOut.steps # Null
         /\ Equals(corrOut.correlation, SlopeSign(sample), 1)
    /\ regOut # NotRun =>
         /\ regOut.line # Null
         /\ Equals(regOut.line.slope, Rise(sample), Run(sample))
         /\ Equals(regOut.line.intercept, InterceptTimes(sample), 100 * Run(sample))

\* C8 as amended: for such a sequence, of coordinates that are multiples of 0.01 in
\* [-10, 10], calculateCorrelation returns non-null steps and a correlation within
\* 0.001 of 1 when m > 0 and of -1 when m < 0, and calculateRegression returns a
\* slope within 0.001 of m and an intercept within 0.001 of b.
CollinearNear ==
  CollinearCase(sample) =>
    /\ corrOut # NotRun =>
         /\ corrOut.steps # Null
         /\ Near(corrOut.correlation, SlopeSign(sample), 1)
    /\ regOut # NotRun =>
         /\ regOut.line # Null
         /\ Near(regOut.line.slope, Rise(sample), Run(sample))
         /\ Near(regOut.line.intercept, InterceptTimes(sample), 100 * Run(sample))

\* Both functions have been applied to three points of a falling line, and the
\* correlation returned is below -1.
FallingLineBelowMinusOne ==
  /\ CollinearCase(sample)
  /\ SlopeSign(sample) = -1
  /\ corrOut # NotRun
  /\ regOut # NotRun
  /\ FLt(corrOut.correlation, FromInt(-1))

\* C9: whenever calculateCorrelation returns a non-null correlation for points with
\* coordinates in [-10, 10], it lies in [-1, 1]; where it divides, the product under
\* the square root is not negative and the square of the numerator does not exceed
\* it.
CorrelationInRange ==
  (corrOut # NotRun /\ corrOut.correlation # Null) =>
    /\ FLe(FromInt(-1), corrOut.correlation)
    /\ FLe(corrOut.correlation, FromInt(1))
    /\ corrOut.path = "divide" =>
         /\ FLe(Zero(0), corrOut.product)
         /\ FLe(FMul(corrOut.numerator, corrOut.numerator), corrOut.product)

\* C10: both functions return a value for every point sequence; no divisor is 0;
\* calculateCorrelation divides by its denominator only when that is at least 0.0001
\* in magnitude, and calculateRegression divides only when its denominator is not 0
\* and there are 3 or more points.
DividesOnlyWhenGuarded ==
  /\ corrOut # NotRun =>
       /\ \A i \in 1..Len(corrOut.divisors) : ~IsZero(corrOut.divisors[i])
       /\ Len(corrOut.divisors) = 2 => FLe(Epsilon, FAbs(corrOut.divisors[2]))
  /\ regOut # NotRun =>
       /\ \A i \in 1..Len(regOut.divisors) : ~IsZero(regOut.divisors[i])
       /\ regOut.divisors # <<>> =>
            Len(sample) >= 3 /\ ~FEq(regOut.divisors[1], Zero(0))

====
